---- MODULE Spec2Model ----
(***************************************************************************)
(* A model of the kvs repository: the log-structured store KvStore         *)
(* (src/src/engines/kv.rs), the SharedQueueThreadPool                      *)
(* (src/src/thread_pool.rs) and the connection handler serve               *)
(* (src/src/server.rs).                                                    *)
(*                                                                         *)
(* A segment file is a sequence of records; a record carries the length of *)
(* its JSON encoding, so offsets and lengths are the byte offsets and byte *)
(* lengths of the code.  One thread ("main") owns the primary KvStore      *)
(* handle and is the only caller of set and remove; a second thread owns a *)
(* clone of the store and calls get.  The steps of compaction that another *)
(* thread can observe are separate actions.                                *)
(***************************************************************************)
EXTENDS Integers, Sequences, FiniteSets, TLC

VARIABLES
    \* ---- KvStore: the directory and the state shared by all clones
    files,          \* generation -> the records written to <gen>.log
    dir,            \* the generations whose file is in the directory
    index,          \* key -> CommandPos, or NoEntry
    uncompacted,    \* KvWriter.uncompacted
    current_gen,    \* KvWriter.current_gen
    safe_point,     \* KvReader.safe_point (shared AtomicU64)
    wpos,           \* KvWriter.writer.pos
    wreaders,       \* KvWriter.kvs_reader.readers (generations with a handle)
    \* ---- the writer's position inside set / compact
    wpc,            \* "idle" or the step of compact() the writer is at
    compaction_gen, \* compact(): compaction_gen
    new_pos,        \* compact(): new_pos
    todo,           \* compact(): the keys the index iterator has yet to yield
    stale,          \* compact(): stale_gens yet to be removed
    sinkBuf,        \* compact(): bytes held in compaction_writer's buffer
    \* ---- the primary handle (thread "main")
    mreaders,       \* KvStore.kvs_reader.readers of the primary handle
    last,           \* the last set, remove or open the main thread completed
    \* ---- a clone of the store used by a second thread for get
    rpc,            \* "idle", "lookup", "open", "read" or "done"
    rkey,           \* the key of the get in progress
    rentry,         \* the CommandPos the get obtained from the index
    rreaders,       \* the clone's kvs_reader.readers
    rres,           \* the result of the clone's last get
    \* ---- history
    model,          \* key -> the value a sequential map would hold
    inflight,       \* the set that has not returned yet, and the index and
                    \* current_gen with which it called compact()
    rallowed,       \* results the clone's get may return (see RStart)
    rquiet,         \* no write to rkey overlapped the clone's get
    rafter,         \* a set of rkey had returned Ok when the clone's get began
    nops,           \* calls of set, remove and open made
    inWriter,       \* how many threads are inside KvWriter's set or compact
    \* ---- SharedQueueThreadPool
    queue,          \* the jobs in the channel: a job's number, 0 for a no-op
    workers,        \* worker thread -> where it is in run_receiver, and its job
    terminated,     \* SharedQueueThreadPool.terminated
    stopLeft,       \* stop(): no-ops yet to send; -1 before stop() is called
    jobs,           \* the jobs passed to spawn: job number -> "work" or "panic"
    runs,           \* job number -> how many times the job was invoked
    \* ---- the handler of one connection (serve)
    sterm,          \* KvsServer.terminated
    spc,            \* where the handler is in serve
    chunk,          \* the item the request stream yielded last
    decoded,        \* the requests the stream has decoded, in order
    sres,           \* what the engine returned for the Get being served
    responses,      \* the responses written to the socket, in order
    \* ---- the accept loop (KvsServer::run)
    apc,            \* where run is in its loop
    aitem           \* what listener.incoming() yielded last

kvVars == <<files, dir, index, uncompacted, current_gen, safe_point, wpos,
            wreaders, wpc, compaction_gen, new_pos, todo, stale, sinkBuf,
            mreaders, last, rpc, rkey, rentry, rreaders, rres,
            model, inflight, rallowed, rquiet, rafter, nops, inWriter>>

poolVars == <<queue, workers, terminated, stopLeft, jobs, runs>>
runVars == <<apc, aitem>>
srvVars == <<sterm, spc, chunk, decoded, sres, responses, runVars>>

vars == <<kvVars, poolVars, srvVars>>

----------------------------------------------------------------------------
\* Inputs and bounds

\* The keys, in the order the index iterates them.
KeySeq == <<"a", "b">>
Keys == {KeySeq[i] : i \in 1..Len(KeySeq)}
Values == {"x", "y"}
\* With the value only the workload of one key writes.
AllValues == Values \cup {"z"}

\* Byte lengths of the input strings.
KeyLen == 1
XLen == 524258
YLen == 1100000
ZLen == 11000000
ValueLen(v) == IF v = "x" THEN XLen ELSE IF v = "y" THEN YLen ELSE ZLen

\* Calls of set, remove and open the main thread makes.
MaxOps == 3
\* Calls of set the workload of one key makes.
MaxSameSets == 8
\* The threads of the pool, and the jobs passed to spawn.
PoolSize == 2
MaxJobs == 3
MaxQueueJobs == 5
\* The requests the connection's stream decodes.
MaxRequests == 3

----------------------------------------------------------------------------
\* Records and their encoding

COMPACTION_THRESHOLD == 1048576

\* serde_json writes Command::Set as {"Set":{"key":"K","value":"V"}} and
\* Command::Rm as {"Rm":{"key":"K"}} (addr is skipped).
SetOverhead == 29
RmOverhead == 17

\* The capacity of a std BufWriter.
BUF_CAP == 8192

SetRec(k, v) == [op |-> "Set", key |-> k, value |-> v,
                 len |-> SetOverhead + KeyLen + ValueLen(v)]
RmRec(k) == [op |-> "Rm", key |-> k, value |-> "-", len |-> RmOverhead + KeyLen]
\* Bytes that are not one whole record.
Junk(n) == [op |-> "Junk", key |-> "-", value |-> "-", len |-> n]

RECURSIVE FileLen(_)
FileLen(f) == IF f = <<>> THEN 0 ELSE f[Len(f)].len + FileLen(SubSeq(f, 1, Len(f) - 1))

Offset(f, i) == FileLen(SubSeq(f, 1, i - 1))

NoEntry == [gen |-> 0, pos |-> 0, len |-> 0]
CommandPos(g, start, end) == [gen |-> g, pos |-> start, len |-> end - start]

Ok == [tag |-> "Ok", val |-> "-"]
None == [tag |-> "None", val |-> "-"]
Some(v) == [tag |-> "Some", val |-> v]
Err(e) == [tag |-> "Err", val |-> e]
NoRes == [tag |-> "-", val |-> "-"]

Min(a, b) == IF a < b THEN a ELSE b
Max(a, b) == IF a > b THEN a ELSE b
SetMax(S) == CHOOSE x \in S : \A y \in S : y <= x
SetMin(S) == CHOOSE x \in S : \A y \in S : x <= y

RECURSIVE SortedSeq(_)
SortedSeq(S) == IF S = {} THEN <<>> ELSE <<SetMin(S)>> \o SortedSeq(S \ {SetMin(S)})

----------------------------------------------------------------------------
\* The read path

\* The bytes of <g>.log that have reached the file: everything written to it
\* except what compaction_writer still buffers.
Available(g) == FileLen(files[g]) - (IF g = compaction_gen THEN sinkBuf ELSE 0)

\* The records of <g>.log that occupy exactly the bytes [pos, pos + len).
RecordsAt(g, pos, len) ==
    {i \in 1..Len(files[g]) : Offset(files[g], i) = pos /\ files[g][i].len = len}

\* read_and's seek and take, and get's closure: decode the len bytes at pos.
\* Too few bytes, or bytes that are not one record, do not parse.
Decode(e) ==
    LET hits == RecordsAt(e.gen, e.pos, e.len) IN
    IF e.pos + e.len > Available(e.gen) \/ hits = {} THEN Err("Serde")
    ELSE LET r == files[e.gen][CHOOSE i \in hits : TRUE] IN
         IF r.op = "Set" THEN Some(r.value)
         ELSE IF r.op = "Rm" THEN Err("UnexpectedCommandType")
         ELSE Err("Serde")

\* close_stale_readers: drop the handles of generations below safe_point.
CloseStale(readers) == {g \in readers : g >= safe_point}

\* read_and's File::open: a cached handle, or a file of the directory.
CanOpen(readers, g) == g \in readers \/ g \in dir

\* KvStore::get on a handle whose cache is readers, run without interruption.
GetOn(readers, k) ==
    LET kept == CloseStale(readers)
        e == index[k]
    IN  IF e = NoEntry THEN [readers |-> kept, res |-> None]
        ELSE IF CanOpen(kept, e.gen)
             THEN [readers |-> kept \cup {e.gen}, res |-> Decode(e)]
             ELSE [readers |-> kept, res |-> Err("Io")]

\* What the index resolves each key to.
Resolve(k) == IF index[k] = NoEntry THEN None
              ELSE IF index[k].gen \in dir THEN Decode(index[k]) ELSE Err("Io")

----------------------------------------------------------------------------
\* open() and load()

\* load that skips Rm records.
LoadRec_SkipsRm(acc, gen, pos, rec) ==
    IF rec.op = "Set"
    THEN [acc EXCEPT !.index[rec.key] = [gen |-> gen, pos |-> pos, len |-> rec.len]]
    ELSE acc

\* load's loop body on the record rec found at pos of <gen>.log.
LoadRec(acc, gen, pos, rec) ==
    LET old == acc.index[rec.key]
        oldLen == IF old # NoEntry THEN old.len ELSE 0
    IN  IF rec.op = "Set"
        THEN [acc EXCEPT !.index[rec.key] = [gen |-> gen, pos |-> pos, len |-> rec.len],
                         !.unc = @ + oldLen]
        ELSE [acc EXCEPT !.index[rec.key] = NoEntry,
                         !.unc = @ + oldLen + rec.len]

RECURSIVE load(_, _, _, _, _)
load(acc, gen, f, i, pos) ==
    IF i > Len(f) \/ ~acc.ok THEN acc
    ELSE IF f[i].op = "Junk" THEN [acc EXCEPT !.ok = FALSE]
    ELSE load(LoadRec(acc, gen, pos, f[i]), gen, f, i + 1, pos + f[i].len)

RECURSIVE Replay(_, _, _)
Replay(acc, gens, fs) ==
    IF gens = <<>> THEN acc
    ELSE Replay(load(acc, Head(gens), fs[Head(gens)], 1, 0), Tail(gens), fs)

\* sorted_gen_list without the sort, on a listing that comes greatest first.
sorted_gen_list_Descending(d) ==
    LET s == SortedSeq(d) IN [i \in 1..Len(s) |-> s[Len(s) + 1 - i]]

sorted_gen_list(d) == SortedSeq(d)

\* KvStore::open on a directory holding the files fs of the generations d.
open(fs, d) ==
    LET gen_list == sorted_gen_list(d)
        acc == Replay([index |-> [k \in Keys |-> NoEntry], unc |-> 0, ok |-> TRUE],
                      gen_list, fs)
        cur == (IF gen_list = <<>> THEN 0 ELSE gen_list[Len(gen_list)]) + 1
    IN  [ok |-> acc.ok,
         index |-> acc.index,
         uncompacted |-> acc.unc,
         current_gen |-> cur,
         safe_point |-> IF gen_list = <<>> THEN cur ELSE gen_list[1],
         files |-> (cur :> <<>>) @@ fs,
         dir |-> d \cup {cur},
         readers |-> d]

----------------------------------------------------------------------------
\* History kept beside the program's state

Call(op, k, res, had, before) ==
    [op |-> op, key |-> k, res |-> res, had |-> had, before |-> before]
NoCall == Call("-", "-", NoRes, FALSE, "-")
NoFlight == [key |-> "-", value |-> "-", had |-> FALSE, before |-> "-",
             entries |-> [k \in Keys |-> NoEntry], gen |-> 0]

\* The main thread's call returns.
Return(c) == last' = c

\* A write to k that makes r the result of a get of k: it overlaps the clone's
\* get when that get is of k.
Touch(k, r) ==
    IF rpc \in {"lookup", "open", "read"} /\ rkey = k
    THEN rallowed' = rallowed \cup {r} /\ rquiet' = FALSE /\ UNCHANGED rafter
    ELSE UNCHANGED <<rallowed, rquiet, rafter>>

compactVars == <<compaction_gen, new_pos, todo, stale, sinkBuf>>
cloneVars == <<rpc, rkey, rentry, rreaders, rres>>
cloneHist == <<rallowed, rquiet, rafter>>

----------------------------------------------------------------------------
\* The write path (KvStore::set and KvStore::remove hold the writer mutex)

\* A lock that is granted while another thread holds it.
MutexFree_Always == TRUE

\* No thread holds the writer mutex: none is inside set, remove or compact.
MutexFree == wpc \in {"idle", "panicked"}

\* A mutex that never reports its poisoning.
Poisoned_Never == FALSE

\* Lines 276 and 315: lock() fails once a thread has panicked holding the
\* mutex.
Poisoned == wpc = "panicked"

\* lock()? returns the poison error: the writer is not reached.
LockFails(op, k) ==
    /\ nops' = nops + 1
    /\ Return(Call(op, k, Err("PoisonError"), FALSE, model[k]))
    /\ UNCHANGED <<files, dir, index, uncompacted, current_gen, safe_point, wpos,
                   wreaders, wpc, compactVars, mreaders, cloneVars, model,
                   inflight, cloneHist>>
    /\ UNCHANGED inWriter

\* set that compacts as soon as the counter reaches the threshold.
ShouldCompact_AtThreshold(unc) == unc >= COMPACTION_THRESHOLD

\* Line 184: self.uncompacted > COMPACTION_THRESHOLD.
ShouldCompact(unc) == unc > COMPACTION_THRESHOLD

\* KvWriter::set up to its call of compact().
KvSet(k, v) ==
    LET rec == SetRec(k, v)
        pos == wpos
        end == wpos + rec.len
        old == index[k]
        unc == uncompacted + (IF old # NoEntry THEN old.len ELSE 0)
    IN  /\ MutexFree
        /\ nops' = nops + 1
        /\ files' = [files EXCEPT ![current_gen] = Append(@, rec)]
        /\ wpos' = end
        /\ index' = [index EXCEPT ![k] = CommandPos(current_gen, pos, end)]
        /\ uncompacted' = unc
        /\ Touch(k, Some(v))
        /\ IF ShouldCompact(unc)
           THEN /\ wpc' = "begin"
                /\ inWriter' = inWriter + 1
                /\ inflight' = [key |-> k, value |-> v, had |-> old # NoEntry,
                                before |-> model[k],
                                entries |-> [index EXCEPT ![k] =
                                               CommandPos(current_gen, pos, end)],
                                gen |-> current_gen]
                /\ UNCHANGED <<last, model>>
           ELSE /\ wpc' = "idle"
                /\ UNCHANGED inWriter
                /\ Return(Call("set", k, Ok, old # NoEntry, model[k]))
                /\ model' = [model EXCEPT ![k] = v]
                /\ UNCHANGED inflight
        /\ UNCHANGED <<dir, current_gen, safe_point, wreaders, compactVars,
                       mreaders, cloneVars>>

\* remove without the presence check.
ContainsKey_Always(idx, k) == TRUE

\* Line 191: self.index.contains_key(&key).
ContainsKey(idx, k) == idx[k] # NoEntry

\* remove that clears the index.
IndexRemove_All(idx, k) == [j \in Keys |-> NoEntry]

\* remove that leaves the entry in the index.
IndexRemove_Keeps(idx, k) == idx

\* Line 196: self.index.remove(&key).
IndexRemove(idx, k) == [idx EXCEPT ![k] = NoEntry]

\* KvWriter::remove.
KvRemove(k) ==
    LET rec == RmRec(k)
        old == index[k]
        abstract == IF model[k] \in AllValues THEN "removed" ELSE model[k]
    IN  /\ MutexFree
        /\ nops' = nops + 1
        /\ model' = [model EXCEPT ![k] = abstract]
        /\ IF ContainsKey(index, k)
           THEN /\ files' = [files EXCEPT ![current_gen] = Append(@, rec)]
                /\ wpos' = wpos + rec.len
                /\ index' = IndexRemove(index, k)
                /\ uncompacted' = uncompacted + old.len
                /\ Touch(k, None)
                /\ Return(Call("remove", k, Ok, old # NoEntry, model[k]))
           ELSE /\ Return(Call("remove", k, Err("KeyNotFound"), FALSE, model[k]))
                /\ UNCHANGED <<files, wpos, index, uncompacted, cloneHist>>
        /\ UNCHANGED <<dir, current_gen, safe_point, wreaders, wpc, compactVars,
                       mreaders, cloneVars, inflight>>
        /\ UNCHANGED inWriter

\* KvStore::set and KvStore::remove: lock the writer, then call it.
StoreSet(k, v) == IF Poisoned THEN LockFails("set", k) ELSE KvSet(k, v)
StoreRemove(k) == IF Poisoned THEN LockFails("remove", k) ELSE KvRemove(k)

\* A thread panics inside KvWriter::set, after the record has been written and
\* flushed and before the index is updated: the call never returns.
PanicInSet(k, v) ==
    LET rec == SetRec(k, v) IN
    /\ wpc = "idle"
    /\ nops' = nops + 1
    /\ files' = [files EXCEPT ![current_gen] = Append(@, rec)]
    /\ wpos' = wpos + rec.len
    /\ wpc' = "panicked"
    /\ UNCHANGED <<dir, index, uncompacted, current_gen, safe_point, wreaders,
                   compactVars, mreaders, last, cloneVars, model, inflight,
                   cloneHist>>
    /\ UNCHANGED inWriter

\* A thread panics inside compact(): unwinding drops compaction_writer, which
\* flushes its buffer, and the set that ran compact() never returns.
PanicInCompact ==
    /\ wpc \in {"begin", "copy", "publish", "unlink"}
    /\ wpc' = "panicked"
    /\ sinkBuf' = 0
    /\ inflight' = NoFlight
    /\ UNCHANGED <<files, dir, index, uncompacted, current_gen, safe_point, wpos,
                   wreaders, compaction_gen, new_pos, todo, stale, mreaders, last,
                   cloneVars, model, cloneHist, nops>>
    /\ inWriter' = inWriter - 1

\* get that looks the key up with the map's remove, as load does.
IndexGet_Removes(idx, k) == [idx EXCEPT ![k] = NoEntry]

\* Line 290: self.index.get(&key) leaves the map as it is.
IndexGet(idx, k) == idx

\* KvStore::get on the primary handle.
KvGet(k) ==
    LET got == GetOn(mreaders, k) IN
    /\ wpc = "idle"
    /\ mreaders' = got.readers
    /\ index' = IndexGet(index, k)
    /\ UNCHANGED <<last, files, dir, uncompacted, current_gen, safe_point, wpos,
                   wreaders, wpc, compactVars, cloneVars, model, inflight,
                   cloneHist, nops>>
    /\ UNCHANGED inWriter

----------------------------------------------------------------------------
\* KvWriter::compact, one action per step another thread can observe

\* What compaction_writer's buffer holds after io::copy has written len more
\* bytes through it in chunks of BUF_CAP: a chunk that does not fit flushes
\* the buffer, a chunk of the full capacity is written through, and a
\* shorter one stays in the buffer.
BufAfter(buf, len) ==
    IF len >= BUF_CAP THEN len % BUF_CAP
    ELSE IF buf + len > BUF_CAP THEN len
    ELSE buf + len

\* The bytes io::copy reads through read_and for the entry e.
CopyRec(e) ==
    LET hits == RecordsAt(e.gen, e.pos, e.len) IN
    IF hits # {} /\ e.pos + e.len <= Available(e.gen)
    THEN files[e.gen][CHOOSE i \in hits : TRUE]
    ELSE Junk(Max(0, Min(e.len, Available(e.gen) - e.pos)))

\* compact() that names the generation the writer had before compaction.
CompactEntry_OldGen(gen, pos, len) == CommandPos(gen - 1, pos, pos + len)

\* compact() that forgets new_pos.
CompactEntry_AtZero(gen, pos, len) == CommandPos(gen, 0, len)

\* The index entry compact() inserts for a record of len bytes copied to pos.
CompactEntry(gen, pos, len) == CommandPos(gen, pos, pos + len)

\* compact() that removes every file it lists.
StaleGens_All(d, gen) == sorted_gen_list(d)

\* compact() that removes no file.
StaleGens_None(d, gen) == <<>>

\* The generations compact() removes.
StaleGens(d, gen) == SelectSeq(sorted_gen_list(d), LAMBDA g : g < gen)

\* compact() that visits the keys from the greatest to the least.
CompactOrder_Descending(idx) ==
    LET s == SelectSeq(KeySeq, LAMBDA k : idx[k] # NoEntry)
    IN  [i \in 1..Len(s) |-> s[Len(s) + 1 - i]]

\* Line 135: self.index.iter(), the SkipMap's entries in ascending key order.
CompactOrder(idx) == SelectSeq(KeySeq, LAMBDA k : idx[k] # NoEntry)

\* compact() that copies into the segment the writer was appending to.
CompactionGen_OldCurrent(cur) == cur

\* compaction_gen computed after current_gen has been increased.
CompactionGen_AfterIncrease(cur) == cur + 3

\* Line 127: compaction_gen, from current_gen before line 128 increases it.
CompactionGen(cur) == cur + 1

\* current_gen increased by three, leaving a generation unused.
NewCurrentGen_ByThree(cur) == cur + 3

\* Line 128: the generation of the file the writer appends to afterwards.
NewCurrentGen(cur) == cur + 2

\* Lines 127-134: the two new generations and their files.
CompactBegin ==
    /\ wpc = "begin"
    /\ compaction_gen' = CompactionGen(current_gen)
    /\ current_gen' = NewCurrentGen(current_gen)
    /\ files' = (CompactionGen(current_gen) :> <<>>)
                @@ (NewCurrentGen(current_gen) :> <<>>) @@ files
    /\ dir' = dir \cup {CompactionGen(current_gen), NewCurrentGen(current_gen)}
    /\ wpos' = 0
    /\ new_pos' = 0
    /\ sinkBuf' = 0
    /\ todo' = CompactOrder(index)
    /\ wpc' = "copy"
    /\ UNCHANGED <<index, uncompacted, safe_point, wreaders, stale, mreaders,
                   last, cloneVars, model, inflight, cloneHist, nops>>
    /\ UNCHANGED <<inWriter, poolVars, srvVars>>

\* Lines 135-146, one iteration: copy the record of the next key and point the
\* index at the copy.
CompactCopy ==
    /\ wpc = "copy"
    /\ todo # <<>>
    /\ LET k == Head(todo)
           e == index[k]
           rec == CopyRec(e)
       IN  IF CanOpen(wreaders, e.gen)
           THEN /\ wreaders' = wreaders \cup {e.gen}
                /\ files' = [files EXCEPT ![compaction_gen] = Append(@, rec)]
                /\ sinkBuf' = BufAfter(sinkBuf, rec.len)
                /\ index' = [index EXCEPT ![k] = CompactEntry(compaction_gen, new_pos, rec.len)]
                /\ new_pos' = new_pos + rec.len
                /\ todo' = Tail(todo)
                /\ UNCHANGED <<wpc, last, inflight, inWriter>>
           ELSE \* File::open fails and set returns the error
                /\ wpc' = "idle"
                /\ Return(Call("set", inflight.key, Err("Io"), inflight.had, inflight.before))
                /\ inflight' = NoFlight
                /\ inWriter' = inWriter - 1
                /\ sinkBuf' = 0   \* dropping compaction_writer flushes it
                /\ UNCHANGED <<wreaders, files, index, new_pos, todo>>
    /\ UNCHANGED <<dir, uncompacted, current_gen, safe_point, wpos, compaction_gen,
                   stale, mreaders, cloneVars, model, cloneHist, nops>>
    /\ UNCHANGED <<poolVars, srvVars>>

\* Line 147: compaction_writer.flush() after the loop.
CompactFlush ==
    /\ wpc = "copy"
    /\ todo = <<>>
    /\ sinkBuf' = 0
    /\ wpc' = "publish"
    /\ UNCHANGED <<files, dir, index, uncompacted, current_gen, safe_point, wpos,
                   wreaders, compaction_gen, new_pos, todo, stale, mreaders, last,
                   cloneVars, model, inflight, cloneHist, nops>>
    /\ UNCHANGED <<inWriter, poolVars, srvVars>>

\* compact() that publishes the generation of the writer's new file.
PublishedSafePoint_Current(cgen, cur) == cur

\* Line 149: safe_point.store(compaction_gen).
PublishedSafePoint(cgen, cur) == cgen

\* Lines 149-156: store safe_point and list the stale generations.
CompactPublish ==
    /\ wpc = "publish"
    /\ safe_point' = PublishedSafePoint(compaction_gen, current_gen)
    /\ stale' = StaleGens(dir, compaction_gen)
    /\ wpc' = "unlink"
    /\ UNCHANGED <<files, dir, index, uncompacted, current_gen, wpos, wreaders,
                   compaction_gen, new_pos, todo, sinkBuf, mreaders, last,
                   cloneVars, model, inflight, cloneHist, nops>>
    /\ UNCHANGED <<inWriter, poolVars, srvVars>>

\* Lines 158-161, one iteration: drop the writer's handle and remove the file.
CompactUnlink ==
    /\ wpc = "unlink"
    /\ stale # <<>>
    /\ wreaders' = wreaders \ {Head(stale)}
    /\ dir' = dir \ {Head(stale)}
    /\ stale' = Tail(stale)
    /\ UNCHANGED <<files, index, uncompacted, current_gen, safe_point, wpos, wpc,
                   compaction_gen, new_pos, todo, sinkBuf, mreaders, last,
                   cloneVars, model, inflight, cloneHist, nops>>
    /\ UNCHANGED <<inWriter, poolVars, srvVars>>

\* Lines 163-165 and 187: uncompacted = 0, and set returns Ok.
CompactFinish ==
    /\ wpc = "unlink"
    /\ stale = <<>>
    /\ uncompacted' = 0
    /\ wpc' = "idle"
    /\ compaction_gen' = 0
    /\ new_pos' = 0
    /\ Return(Call("set", inflight.key, Ok, inflight.had, inflight.before))
    /\ model' = [model EXCEPT ![inflight.key] = inflight.value]
    /\ inflight' = NoFlight
    /\ UNCHANGED <<files, dir, index, current_gen, safe_point, wpos, wreaders,
                   todo, stale, sinkBuf, mreaders, cloneVars, cloneHist, nops>>
    /\ inWriter' = inWriter - 1
    /\ UNCHANGED <<poolVars, srvVars>>

----------------------------------------------------------------------------
\* Closing every handle and opening the store again on the same directory

Reopen ==
    /\ wpc = "idle"
    /\ rpc = "idle"
    /\ nops < MaxOps
    /\ nops' = nops + 1
    /\ LET o == open(files, dir) IN
       IF o.ok
       THEN /\ files' = o.files
            /\ dir' = o.dir
            /\ index' = o.index
            /\ uncompacted' = o.uncompacted
            /\ current_gen' = o.current_gen
            /\ safe_point' = o.safe_point
            /\ mreaders' = o.readers
            /\ Return(Call("open", "-", Ok, FALSE, "-"))
       ELSE /\ Return(Call("open", "-", Err("Serde"), FALSE, "-"))
            /\ UNCHANGED <<files, dir, index, uncompacted, current_gen,
                           safe_point, mreaders>>
    /\ wpos' = 0
    /\ wreaders' = {}
    /\ rreaders' = {}
    /\ UNCHANGED <<wpc, compactVars, rpc, rkey, rentry, rres, model, inflight,
                   cloneHist>>
    /\ UNCHANGED <<inWriter, poolVars, srvVars>>

----------------------------------------------------------------------------
\* KvStore::get on the clone, one action per access to shared state

AbstractRes(m) == IF m \in AllValues THEN Some(m) ELSE None

\* Line 288: close_stale_readers.  The results the map semantics allow this
\* get: the value of the last completed write to k, and that of a set of k
\* that has not returned yet; writes to k made during the get add theirs.
RStart(k) ==
    /\ rpc = "idle"
    /\ rpc' = "lookup"
    /\ rkey' = k
    /\ rreaders' = CloseStale(rreaders)
    /\ UNCHANGED <<rres, rentry>>
    /\ rallowed' = {AbstractRes(model[k])}
                   \cup (IF inflight.key = k THEN {Some(inflight.value)} ELSE {})
    /\ rquiet' = (inflight.key # k)
    /\ rafter' = (model[k] # "never")
    /\ UNCHANGED <<files, dir, index, uncompacted, current_gen, safe_point, wpos,
                   wreaders, wpc, compactVars, mreaders, last, model,
                   inflight, nops>>
    /\ UNCHANGED <<inWriter, poolVars, srvVars>>

\* Line 290: self.index.get(&key).
RLookup ==
    /\ rpc = "lookup"
    /\ IF index[rkey] = NoEntry
       THEN rpc' = "done" /\ rres' = None /\ UNCHANGED rentry
       ELSE rpc' = "open" /\ rentry' = index[rkey] /\ UNCHANGED rres
    /\ index' = IndexGet(index, rkey)
    /\ UNCHANGED <<files, dir, uncompacted, current_gen, safe_point, wpos,
                   wreaders, wpc, compactVars, mreaders, last, rkey,
                   rreaders, model, inflight, cloneHist, nops>>
    /\ UNCHANGED <<inWriter, poolVars, srvVars>>

\* Lines 99-104: read_and opens the file unless the handle is cached.
ROpen ==
    /\ rpc = "open"
    /\ IF CanOpen(rreaders, rentry.gen)
       THEN rpc' = "read" /\ rreaders' = rreaders \cup {rentry.gen} /\ UNCHANGED rres
       ELSE rpc' = "done" /\ rres' = Err("Io") /\ UNCHANGED rreaders
    /\ UNCHANGED <<files, dir, index, uncompacted, current_gen, safe_point, wpos,
                   wreaders, wpc, compactVars, mreaders, last, rkey,
                   rentry, model, inflight, cloneHist, nops>>
    /\ UNCHANGED <<inWriter, poolVars, srvVars>>

\* Lines 105-108 and 294-300: seek, take and decode.
RRead ==
    /\ rpc = "read"
    /\ rpc' = "done"
    /\ rres' = Decode(rentry)
    /\ UNCHANGED <<files, dir, index, uncompacted, current_gen, safe_point, wpos,
                   wreaders, wpc, compactVars, mreaders, last, rkey,
                   rentry, rreaders, model, inflight, cloneHist, nops>>
    /\ UNCHANGED <<inWriter, poolVars, srvVars>>

\* get has returned rres to its caller; the clone keeps only its handles.
RReturn ==
    /\ rpc = "done"
    /\ rpc' = "idle"
    /\ rkey' = "-"
    /\ rentry' = NoEntry
    /\ rres' = NoRes
    /\ rallowed' = {}
    /\ rquiet' = TRUE
    /\ rafter' = FALSE
    /\ UNCHANGED <<files, dir, index, uncompacted, current_gen, safe_point, wpos,
                   wreaders, wpc, compactVars, mreaders, last, rreaders, model,
                   inflight, nops>>
    /\ UNCHANGED <<inWriter, poolVars, srvVars>>

----------------------------------------------------------------------------
\* SharedQueueThreadPool (src/src/thread_pool.rs)

\* Line 63: bounded::<DynFunc>((threads * 2) as usize).
Capacity == PoolSize * 2

Worker(st, job) == [st |-> st, job |-> job]

\* The threads that hold a RecoverableReceiver: while there is none the
\* channel is disconnected.
Receivers == {w \in DOMAIN workers : workers[w].st \in {"loop", "recv", "run"}}

\* sender.send(item) blocks while the channel is full and fails, without
\* queueing the item, when every receiver is gone.
CanSend == Receivers = {} \/ Len(queue) < Capacity
Send(item) == IF Receivers = {} THEN queue ELSE Append(queue, item)

\* SharedQueueThreadPool::spawn: the result of send is ignored.
SpawnJob(kind) ==
    /\ CanSend
    /\ jobs' = Append(jobs, kind)
    /\ runs' = Append(runs, 0)
    /\ queue' = Send(Len(jobs) + 1)
    /\ UNCHANGED <<workers, terminated, stopLeft>>

\* spawn called by a thread that does nothing else.
Spawn(kind) ==
    /\ SpawnJob(kind)
    /\ UNCHANGED <<kvVars, srvVars>>

\* stop() that sends one no-op fewer than there are threads.
StopSends_OneFewer(threads) == threads - 1

\* Line 92: for _ in 0..self.threads.
StopSends(threads) == threads

\* SharedQueueThreadPool::stop, line 91: the flag is stored.
StopBegin ==
    /\ stopLeft = -1
    /\ terminated' = TRUE
    /\ stopLeft' = StopSends(PoolSize)
    /\ UNCHANGED <<queue, workers, jobs, runs>>
    /\ UNCHANGED <<kvVars, srvVars>>

\* SharedQueueThreadPool::stop, lines 92-96: one no-op is sent.
StopSend ==
    /\ stopLeft > 0
    /\ CanSend
    /\ queue' = Send(0)
    /\ stopLeft' = stopLeft - 1
    /\ UNCHANGED <<workers, terminated, jobs, runs>>
    /\ UNCHANGED <<kvVars, srvVars>>

\* Drop that starts a replacement thread whenever a receiver is dropped.
DropSpawns_Always(panicking) == 1

\* Drop without a replacement thread.
DropSpawns_Never(panicking) == 0

\* Drop for RecoverableReceiver: the threads it starts.
DropSpawns(panicking) == IF panicking THEN 1 ELSE 0

\* The worker's thread ends and its receiver is dropped.
WorkerEnds(w, st, panicking) ==
    LET ended == [workers EXCEPT ![w] = Worker(st, 0)]
        new == Cardinality(DOMAIN workers) + 1
    IN  IF DropSpawns(panicking) = 1
        THEN ended @@ (new :> Worker("loop", 0))
        ELSE ended

\* run_receiver, line 35: the loop condition.
WLoop(w) ==
    /\ workers[w].st = "loop"
    /\ workers' = IF terminated
                  THEN WorkerEnds(w, "exited", FALSE)
                  ELSE [workers EXCEPT ![w] = Worker("recv", 0)]
    /\ UNCHANGED <<queue, terminated, stopLeft, jobs, runs>>
    /\ UNCHANGED <<kvVars, srvVars>>

\* run_receiver, lines 36-37: recv returns a job and the job is invoked.
WRecv(w) ==
    /\ workers[w].st = "recv"
    /\ queue # <<>>
    /\ queue' = Tail(queue)
    /\ workers' = [workers EXCEPT ![w] = Worker("run", Head(queue))]
    /\ runs' = IF Head(queue) = 0 THEN runs
               ELSE [runs EXCEPT ![Head(queue)] = @ + 1]
    /\ UNCHANGED <<terminated, stopLeft, jobs>>
    /\ UNCHANGED <<kvVars, srvVars>>

JobKind(j) == IF j = 0 THEN "noop" ELSE jobs[j]

\* The job returns.
WReturn(w) ==
    /\ workers[w].st = "run"
    /\ JobKind(workers[w].job) # "panic"
    /\ workers' = [workers EXCEPT ![w] = Worker("loop", 0)]
    /\ UNCHANGED <<queue, terminated, stopLeft, jobs, runs>>
    /\ UNCHANGED <<kvVars, srvVars>>

\* The job panics: the thread unwinds and drops its receiver.
WPanic(w) ==
    /\ workers[w].st = "run"
    /\ JobKind(workers[w].job) = "panic"
    /\ workers' = WorkerEnds(w, "panicked", TRUE)
    /\ UNCHANGED <<queue, terminated, stopLeft, jobs, runs>>
    /\ UNCHANGED <<kvVars, srvVars>>

\* SharedQueueThreadPool::new.
InitPool ==
    /\ queue = <<>>
    /\ workers = [w \in 1..PoolSize |-> Worker("loop", 0)]
    /\ terminated = FALSE
    /\ stopLeft = -1
    /\ jobs = <<>>
    /\ runs = <<>>

----------------------------------------------------------------------------
\* The connection handler serve (src/src/server.rs)

Request(op, k, v) == [op |-> op, key |-> k, value |-> v]
Requests ==
    {Request("get", k, "-") : k \in Keys}
    \cup {Request("set", k, v) : k \in Keys, v \in Values}
    \cup {Request("remove", k, "-") : k \in Keys}

\* What the request stream yields: a request, or a decoding error whose
\* cause is a read timeout, another I/O error, or malformed input.
OkChunk(req) == [kind |-> "request", req |-> req]
ErrChunk(kind) == [kind |-> kind, req |-> Request("-", "-", "-")]
NoChunk == ErrChunk("-")
Chunks == {OkChunk(r) : r \in Requests}
          \cup {ErrChunk(e) : e \in {"timeout", "io", "syntax"}}

\* Display for KvsError: the text of format!("{}", kvs_error).
Display(e) ==
    IF e = "KeyNotFound" THEN "Key not found"
    ELSE IF e = "UnexpectedCommandType" THEN "Unexpected command type"
    ELSE IF e = "Io" THEN "io error"
    ELSE "json error"

\* Every response the handler writes is of the kind of the Get response.
Response_AlwaysGet(op, res) ==
    [kind |-> "get", body |-> IF res.tag = "Err" THEN Err(Display(res.val)) ELSE res]

\* A response that reports every engine error as success.
Response_HidesErr(op, res) ==
    [kind |-> op, body |-> IF res.tag = "Err" THEN Ok ELSE res]

\* Lines 93-110: the response to a request, from the result of the engine.
Response(op, res) ==
    [kind |-> op, body |-> IF res.tag = "Err" THEN Err(Display(res.val)) ELSE res]

\* Lines 81-82: the iterator of serde_json's Deserializer::from_reader.  Once
\* it has yielded an error (a read timeout and malformed input included) a
\* stream over an io reader is marked failed and yields None from then on.
StreamFailed == chunk.kind \in {"timeout", "io", "syntax"}

\* Line 83: the stream yields its next item, or ends: at the end of the
\* client's input, or after an error.
SrvNext ==
    /\ spc = "next"
    /\ \/ /\ spc' = "returned"
          /\ UNCHANGED <<chunk, decoded>>
       \/ /\ ~StreamFailed
          /\ Len(decoded) < MaxRequests
          /\ \E c \in Chunks :
                /\ chunk' = c
                /\ decoded' = IF c.kind = "request"
                              THEN Append(decoded, c.req) ELSE decoded
          /\ spc' = "check"
    /\ UNCHANGED <<sterm, sres, responses>>
    /\ UNCHANGED <<kvVars, poolVars, runVars>>

\* Lines 84-87 and 113-120: the flag is polled, then the item is matched.
SrvCheck ==
    /\ spc = "check"
    /\ spc' = IF sterm THEN "returned"
              ELSE IF chunk.kind = "request" THEN "exec"
              ELSE IF chunk.kind = "io" THEN "failed"
              ELSE "next"
    /\ UNCHANGED <<sterm, chunk, decoded, sres, responses>>
    /\ UNCHANGED <<kvVars, poolVars, runVars>>

\* Lines 93, 100, 107: the engine is called on the handler's clone of the
\* store.
SrvExec ==
    LET req == chunk.req IN
    /\ spc = "exec"
    /\ spc' = "called"
    /\ IF req.op = "get"
       THEN LET got == GetOn(rreaders, req.key) IN
            /\ rreaders' = got.readers
            /\ sres' = got.res
            /\ index' = IndexGet(index, req.key)
            /\ UNCHANGED <<files, dir, uncompacted, current_gen, safe_point,
                           wpos, wreaders, wpc, compactVars, mreaders, last,
                           rpc, rkey, rentry, rres, model, inflight, cloneHist,
                           nops, inWriter>>
       ELSE /\ IF req.op = "set" THEN StoreSet(req.key, req.value)
                                 ELSE StoreRemove(req.key)
            /\ UNCHANGED sres
    /\ UNCHANGED <<sterm, chunk, decoded, responses>>
    /\ UNCHANGED <<poolVars, runVars>>

\* The engine's result for the request being served.
EngineResult == IF chunk.req.op = "get" THEN sres ELSE last.res

\* send_resp, lines 75-77: the response is written and flushed, or the write
\* fails and serve returns the error.
SrvRespond ==
    /\ spc = "called"
    /\ wpc = "idle"
    /\ \/ /\ responses' = Append(responses, Response(chunk.req.op, EngineResult))
          /\ spc' = "next"
       \/ /\ spc' = "failed"
          /\ UNCHANGED responses
    /\ UNCHANGED <<sterm, chunk, decoded, sres>>
    /\ UNCHANGED <<kvVars, poolVars, runVars>>

\* KvsServer::close.
SrvClose ==
    /\ ~sterm
    /\ sterm' = TRUE
    /\ UNCHANGED <<spc, chunk, decoded, sres, responses>>
    /\ UNCHANGED <<kvVars, poolVars, runVars>>

\* What the non-blocking listener's incoming() yields (it never yields None):
\* a connection, the WouldBlock error when none is waiting, or another error.
Incoming == {"stream", "wouldblock", "error"}

\* Line 33: the iterator calls accept.
RunAccept ==
    /\ apc = "accept"
    /\ \E item \in Incoming :
          /\ item = "stream" => Len(jobs) < MaxQueueJobs
          /\ aitem' = item
    /\ apc' = "check"
    /\ UNCHANGED <<sterm, spc, chunk, decoded, sres, responses>>
    /\ UNCHANGED <<kvVars, poolVars>>

\* Lines 34-37: the flag is polled; when it is set run breaks out of the loop,
\* dropping the item, and returns Ok.
RunCheck ==
    /\ apc = "check"
    /\ apc' = IF sterm THEN "returned" ELSE "match"
    /\ UNCHANGED <<sterm, spc, chunk, decoded, sres, responses, aitem>>
    /\ UNCHANGED <<kvVars, poolVars>>

\* run that returns the accept error, as `?` would.
RunAfterError_Returns == "returned"

\* Lines 52-54: the error is logged and the loop goes on.
RunAfterError == "accept"

\* Lines 41-55: the match on the item.  pool.spawn blocks while the pool's
\* channel is full; the job is serve on the connection.
RunMatch ==
    /\ apc = "match"
    /\ IF aitem = "stream"
       THEN /\ SpawnJob("work")
            /\ apc' = "accept"
       ELSE /\ apc' = IF aitem = "error" THEN RunAfterError ELSE "accept"
            /\ UNCHANGED poolVars
    /\ UNCHANGED <<sterm, spc, chunk, decoded, sres, responses, aitem>>
    /\ UNCHANGED kvVars

\* run has bound its listener and made it non-blocking (lines 31-32).
InitRun ==
    /\ apc = "accept"
    /\ aitem = "-"

\* serve has been called on an accepted connection.
InitSrv ==
    /\ sterm = FALSE
    /\ spc = "next"
    /\ chunk = NoChunk
    /\ decoded = <<>>
    /\ sres = NoRes
    /\ responses = <<>>
    /\ InitRun

----------------------------------------------------------------------------
\* The store: the state after KvStore::open on an empty directory

InitKv ==
    LET o == open(<<>>, {}) IN
    /\ files = o.files
    /\ dir = o.dir
    /\ index = o.index
    /\ uncompacted = o.uncompacted
    /\ current_gen = o.current_gen
    /\ safe_point = o.safe_point
    /\ mreaders = o.readers
    /\ wpos = 0
    /\ wreaders = {}
    /\ wpc = "idle"
    /\ compaction_gen = 0
    /\ new_pos = 0
    /\ todo = <<>>
    /\ stale = <<>>
    /\ sinkBuf = 0
    /\ last = NoCall
    /\ rpc = "idle"
    /\ rkey = "-"
    /\ rentry = NoEntry
    /\ rreaders = {}
    /\ rres = NoRes
    /\ model = [k \in Keys |-> "never"]
    /\ inflight = NoFlight
    /\ rallowed = {}
    /\ rquiet = TRUE
    /\ rafter = FALSE
    /\ nops = 0
    /\ inWriter = 0

\* The calls of the main thread.
Set ==
    /\ nops < MaxOps
    /\ \E k \in Keys, v \in Values : StoreSet(k, v)
    /\ UNCHANGED <<poolVars, srvVars>>

Remove ==
    /\ nops < MaxOps
    /\ \E k \in Keys : StoreRemove(k)
    /\ UNCHANGED <<poolVars, srvVars>>

Get == (\E k \in Keys : KvGet(k)) /\ UNCHANGED <<poolVars, srvVars>>
CloneGet == \E k \in Keys : RStart(k)

Compact ==
    \/ CompactBegin
    \/ CompactCopy
    \/ CompactFlush
    \/ CompactPublish
    \/ CompactUnlink
    \/ CompactFinish

Init == InitKv /\ InitPool /\ InitSrv

Next ==
    \/ Set
    \/ Remove
    \/ Get
    \/ Compact
    \/ Reopen
    \/ CloneGet
    \/ RLookup
    \/ ROpen
    \/ RRead
    \/ RReturn

Spec == Init /\ [][Next]_vars

\* The workload that sets one key again and again to values of one size.
SameSet ==
    /\ nops < MaxSameSets
    /\ \E v \in AllValues :
          /\ model[KeySeq[1]] \in {"never", v}
          /\ StoreSet(KeySeq[1], v)
    /\ UNCHANGED <<poolVars, srvVars>>

NextSameKey ==
    \/ SameSet
    \/ Get
    \/ Compact

SpecSameKey == Init /\ [][NextSameKey]_vars

\* The store used by threads of which one may panic inside the writer.
Panic ==
    \/ /\ nops < MaxOps
       /\ \E k \in Keys, v \in Values : PanicInSet(k, v)
       /\ UNCHANGED <<poolVars, srvVars>>
    \/ PanicInCompact /\ UNCHANGED <<poolVars, srvVars>>

NextPoison ==
    \/ Set
    \/ Remove
    \/ Get
    \/ Compact
    \/ Panic

SpecPoison == Init /\ [][NextPoison]_vars

\* The pool, its owner calling spawn and stop, and its worker threads.
JobKinds == {"work", "panic"}

NextPool ==
    \/ \E kind \in JobKinds : Len(jobs) < MaxJobs /\ Spawn(kind)
    \/ StopBegin
    \/ StopSend
    \/ \E w \in DOMAIN workers : WLoop(w)
    \/ \E w \in DOMAIN workers : WRecv(w)
    \/ \E w \in DOMAIN workers : WReturn(w)
    \/ \E w \in DOMAIN workers : WPanic(w)

SpecPool == Init /\ [][NextPool]_vars

\* The pool under callers that submit jobs faster than the workers take
\* them; no job panics.
NextQueue ==
    \/ Len(jobs) < MaxQueueJobs /\ Spawn("work")
    \/ StopBegin
    \/ StopSend
    \/ \E w \in DOMAIN workers : WLoop(w)
    \/ \E w \in DOMAIN workers : WRecv(w)
    \/ \E w \in DOMAIN workers : WReturn(w)

SpecQueue == Init /\ [][NextQueue]_vars

\* The accept loop with a pool of worker threads that run the handlers; every
\* handler returns.
NextRun ==
    \/ RunAccept
    \/ RunCheck
    \/ RunMatch
    \/ SrvClose
    \/ \E w \in DOMAIN workers : WLoop(w)
    \/ \E w \in DOMAIN workers : WRecv(w)
    \/ \E w \in DOMAIN workers : WReturn(w)

\* run's thread and the workers keep running.
SpecRun ==
    /\ Init /\ [][NextRun]_vars
    /\ WF_vars(RunAccept \/ RunCheck \/ RunMatch)
    /\ \A w \in 1..PoolSize : WF_vars(WLoop(w) \/ WRecv(w) \/ WReturn(w))

\* Every thread the pool can ever have started: its own and one per job.
MaxWorkers == PoolSize + MaxJobs

\* The next step of worker thread w, whichever it is.
WorkerStep(w) ==
    /\ w \in DOMAIN workers
    /\ (WLoop(w) \/ WRecv(w) \/ WReturn(w) \/ WPanic(w))

\* The pool with threads that keep running: a worker thread that can take a
\* step takes one, every job returns or panics, and stop() sends when the
\* channel lets it.
SpecPoolFair ==
    /\ SpecPool
    /\ WF_vars(StopSend)
    /\ \A w \in 1..MaxWorkers : WF_vars(WorkerStep(w))

\* One connection served on a store that no other thread uses.
NextServe ==
    \/ SrvNext
    \/ SrvCheck
    \/ SrvExec
    \/ SrvRespond
    \/ SrvClose
    \/ Compact

SpecServe == Init /\ [][NextServe]_vars

----------------------------------------------------------------------------
\* Properties of the store

StoreVars == <<files, dir, index, uncompacted, current_gen, safe_point>>

\* This step is a call of the main thread that returns in the same step.
Returns(op) == nops' # nops /\ wpc' = "idle" /\ last'.op = op

\* C1: whenever get can be called between the main thread's calls, on the
\* primary handle or on the clone, get(k) returns Some(v) for the v of the
\* most recent set(k, v) not followed by a remove(k), and None when k was
\* never set or was last removed.
C1_GetReturnsLastSet ==
    wpc = "idle" =>
        \A k \in Keys :
            /\ GetOn(mreaders, k).res = AbstractRes(model[k])
            /\ GetOn(rreaders, k).res = AbstractRes(model[k])

\* A set that overwrote a key has run compaction, and the primary handle has
\* since read a live key from the compaction file.
C1_Witness ==
    /\ wpc = "idle"
    /\ last.op = "set" /\ last.had
    /\ safe_point > 1
    /\ \E k \in Keys : /\ model[k] \in AllValues
                       /\ index[k].gen = safe_point
                       /\ index[k].gen \in mreaders
                       /\ GetOn(mreaders, k).res = Some(model[k])

\* C2: remove(k) of a key in the index returns Ok, a get(k) right after it
\* returns None, and a remove(k) of a key that was removed and not set since
\* returns KeyNotFound.
C2_RemoveSemantics ==
    last.op = "remove" =>
        /\ (last.had \/ last.before \in AllValues) => last.res = Ok
        /\ (last.res = Ok /\ wpc = "idle") => GetOn(mreaders, last.key).res = None
        /\ last.before = "removed" => last.res = Err("KeyNotFound")

\* A second remove of the same key has failed.
C2_Witness ==
    /\ last.op = "remove"
    /\ last.before = "removed"
    /\ last.res = Err("KeyNotFound")
    /\ GetOn(mreaders, last.key).res = None

\* C3: remove(k) of a key absent from the index returns KeyNotFound and
\* leaves the segment files, the directory, the index, uncompacted,
\* current_gen and safe_point as they were.
C3_RemoveAbsentChangesNothing ==
    [][(Returns("remove") /\ index[last'.key] = NoEntry)
        => (last'.res = Err("KeyNotFound") /\ UNCHANGED StoreVars)]_vars

\* remove of an absent key has failed on a store that holds records.
C3_Witness ==
    /\ last.op = "remove"
    /\ ~last.had
    /\ last.res = Err("KeyNotFound")
    /\ files[current_gen] # <<>>

\* C4: reopening the store rebuilds an index with the same keys, resolving
\* to the same values, as before: the values of the completed calls.
C4_ReopenPreservesIndex ==
    [][Returns("open")
        => /\ last'.res = Ok
           /\ \A k \in Keys :
                /\ (index'[k] = NoEntry) <=> (index[k] = NoEntry)
                /\ Resolve(k)' = Resolve(k)
                /\ Resolve(k)' = AbstractRes(model[k])]_vars

\* The store was reopened after a compaction removed the first segment, and
\* a key is live.
C4_Witness ==
    /\ last.op = "open"
    /\ last.res = Ok
    /\ safe_point > 1
    /\ \E k \in Keys : model[k] \in AllValues /\ Resolve(k) = Some(model[k])

\* C5: a get on the clone of a key that is live and is not written while the
\* get runs returns the key's value.
C5_ReaderSeesLiveKey ==
    (rpc = "done" /\ rquiet /\ rafter /\ rallowed # {None})
        => rres \in rallowed

\* C6: a get on the clone that starts after set(k, v) returned Ok returns
\* Some(v), or what a later write to k makes the key's value.
C6_GetAfterSet ==
    (rpc = "done" /\ rafter) => rres \in rallowed

\* What the clone's get does return: a value the map semantics allow, or the
\* error of a file that is gone or of a record not yet in its file.
CloneGetResults ==
    rpc = "done" => rres \in rallowed \cup {Err("Io"), Err("Serde")}

----------------------------------------------------------------------------
\* Properties of the thread pool

Running == {w \in DOMAIN workers : workers[w].st = "run"}

\* C7: every job passed to spawn is invoked exactly once: never twice, and
\* never left uninvoked once no worker thread remains to receive it.
C7_EveryJobRunsOnce ==
    \A j \in 1..Len(jobs) :
        /\ runs[j] <= 1
        /\ Receivers = {} => runs[j] = 1

\* C8: while stop() has not been called the pool holds PoolSize worker
\* threads on its queue, whatever number of jobs has panicked, and each of
\* them is at the loop condition, receiving, or running a job.
C8_WorkersReplaced ==
    ~terminated =>
        /\ Cardinality(Receivers) = PoolSize
        /\ Cardinality(DOMAIN workers \ Receivers) =
               Cardinality({j \in 1..Len(jobs) : jobs[j] = "panic" /\ runs[j] = 1
                              /\ \A w \in Running : workers[w].job # j})

\* After a job has panicked, PoolSize jobs submitted after the panic are
\* running at the same time.
C8_Witness ==
    /\ ~terminated
    /\ \E p \in DOMAIN workers : workers[p].st = "panicked"
    /\ Cardinality(Running) = PoolSize
    /\ \A w \in Running : jobs[workers[w].job] = "work"

----------------------------------------------------------------------------
\* Properties of the store's size

RECURSIVE SumLen(_, _)
SumLen(fs, gens) ==
    IF gens = {} THEN 0
    ELSE LET g == CHOOSE x \in gens : TRUE
         IN  FileLen(fs[g]) + SumLen(fs, gens \ {g})

\* The total size of the segment files in the directory.
DirSize == SumLen(files, dir)

\* C9: when one key is set again and again to values of one size, after
\* every completed set the segment files hold at most COMPACTION_THRESHOLD
\* bytes and one record more, however many sets were made.
C9_SizeWithinThresholdAndRecord ==
    (wpc = "idle" /\ last.op = "set")
        => DirSize <= COMPACTION_THRESHOLD
                      + SetRec(last.key, model[last.key]).len

\* Sets of one key have run compaction, and dead records have gathered again
\* up to the threshold.
C9_Witness ==
    /\ wpc = "idle" /\ last.op = "set"
    /\ safe_point > 1
    /\ uncompacted = COMPACTION_THRESHOLD
    /\ DirSize = COMPACTION_THRESHOLD + SetRec(last.key, model[last.key]).len

\* C9 as stated: after every completed set the segment files hold at most
\* ten times COMPACTION_THRESHOLD.
C9_SizeWithinTenThresholds ==
    (wpc = "idle" /\ last.op = "set") => DirSize <= 10 * COMPACTION_THRESHOLD

----------------------------------------------------------------------------
\* Properties of the connection handler

\* What a sequential map holds after the first n of the requests.
RECURSIVE MapAfter(_, _)
MapAfter(reqs, n) ==
    IF n = 0 THEN [k \in Keys |-> "never"]
    ELSE LET m == MapAfter(reqs, n - 1)
             r == reqs[n]
         IN  IF r.op = "set" THEN [m EXCEPT ![r.key] = r.value]
             ELSE IF r.op = "remove" THEN [m EXCEPT ![r.key] = "removed"]
             ELSE m

\* The response the client expects to the i-th of the requests.
ExpectedResponse(reqs, i) ==
    LET m == MapAfter(reqs, i - 1)
        r == reqs[i]
    IN  [kind |-> r.op,
         body |-> IF r.op = "get" THEN AbstractRes(m[r.key])
                  ELSE IF r.op = "set" THEN Ok
                  ELSE IF m[r.key] \in Values THEN Ok
                  ELSE Err("Key not found")]

\* C10: the responses written are those of the requests decoded, in order,
\* each of its request's kind and carrying the engine's result for it; and
\* while the shutdown flag is not set and no socket operation has failed,
\* every decoded request has its response once the handler is done with it.
C10_OneResponsePerRequest ==
    /\ Len(responses) <= Len(decoded)
    /\ \A i \in 1..Len(responses) : responses[i] = ExpectedResponse(decoded, i)
    /\ (~sterm /\ spc # "failed") =>
            Len(responses) = Len(decoded)
                - (IF spc \in {"exec", "called"}
                      \/ (spc = "check" /\ chunk.kind = "request")
                   THEN 1 ELSE 0)

\* The handler has answered a Get, a Set that ran compaction and a failed
\* Remove, and waits for the next request.
C10_Witness ==
    /\ ~sterm
    /\ spc = "next"
    /\ Len(responses) = MaxRequests
    /\ safe_point > 1
    /\ \E i \in 1..Len(responses) : responses[i].body = Err("Key not found")

\* C11: when the engine fails a request (a Remove of a key the map does not
\* hold) the handler writes Err with the error's message for that request
\* and goes on to the next item of the stream; and serve returns an error
\* only after an I/O error of the socket, on reading or on writing.
C11_EngineErrorKeepsConnection ==
    [][LET n == Len(decoded)
           r == decoded[n]
       IN  /\ (/\ spc = "called" /\ spc' \notin {"called", "failed"}
               /\ r.op = "remove"
               /\ MapAfter(decoded, n - 1)[r.key] \notin Values)
              => /\ responses' = Append(responses,
                                        [kind |-> "remove",
                                         body |-> Err("Key not found")])
                 /\ spc' = "next"
           /\ (spc # "failed" /\ spc' = "failed")
              => \/ spc = "check" /\ chunk.kind = "io"
                 \/ spc = "called"]_vars

\* A request has been answered on the connection after the answer to a
\* request the engine failed.
C11_Witness ==
    /\ spc = "next"
    /\ \E i \in 1..(Len(responses) - 1) : responses[i].body = Err("Key not found")

\* C12: when serve returns Ok, also after the shutdown flag was set, every
\* request the stream decoded has been executed and answered.
C12_DecodedRequestAnswered ==
    spc = "returned" => Len(responses) = Len(decoded)

----------------------------------------------------------------------------
\* Properties of the writer mutex

\* C13: once a thread has panicked holding the writer mutex, the mutex stays
\* poisoned, every later set and remove returns the poison error, and no step
\* appends to a segment or changes the index.
C13_PoisonedWritesFail ==
    [][wpc = "panicked"
        => /\ wpc' = "panicked"
           /\ UNCHANGED <<files, dir, index, uncompacted, current_gen, safe_point>>
           /\ nops' # nops
              => /\ last'.op \in {"set", "remove"}
                 /\ last'.res = Err("PoisonError")]_vars

\* A thread has panicked during compaction, and a remove of a key the index
\* holds has since failed with the poison error.
C13_Witness ==
    /\ wpc = "panicked"
    /\ safe_point = 1 /\ current_gen = 3
    /\ last.op = "remove"
    /\ last.res = Err("PoisonError")
    /\ index[last.key] # NoEntry

\* C14: at most one thread is inside the write path; while compaction runs
\* the set that started it has not returned, and no other set or remove can
\* start; and a get on a clone can take its next
\* step in every state, whatever the writer is doing.
C14_OneWriterReadersFree ==
    /\ inWriter <= 1
    /\ wpc \in {"begin", "copy", "publish", "unlink"}
          => /\ inWriter = 1
             /\ inflight # NoFlight
             /\ ~ENABLED Set
             /\ ~ENABLED Remove
    /\ rpc = "idle" => ENABLED CloneGet
    /\ rpc = "lookup" => ENABLED RLookup
    /\ rpc = "open" => ENABLED ROpen
    /\ rpc = "read" => ENABLED RRead

\* A get on the clone has obtained its entry and opened the file while the
\* writer is copying records in compaction.
C14_Witness ==
    /\ wpc = "copy"
    /\ inWriter = 1
    /\ todo # <<>>
    /\ rpc = "read"

----------------------------------------------------------------------------
\* Properties of the index, the generations and the counter

\* C15: in every state, every step of compaction included, each entry of
\* the index names a file of the directory and a range of bytes that has
\* reached the file and holds one Set record of the entry's key.
C15_IndexEntriesReadable ==
    \A k \in Keys :
        index[k] # NoEntry =>
            LET e == index[k] IN
            /\ e.gen \in dir
            /\ e.pos + e.len <= Available(e.gen)
            /\ \E i \in RecordsAt(e.gen, e.pos, e.len) :
                  files[e.gen][i].op = "Set" /\ files[e.gen][i].key = k

\* C16: in every state every entry of the index has a generation that is at
\* least safe_point, and the entry a get obtains from the index has a
\* generation that is at least the safe_point of that moment.
C16_IndexAtOrAboveSafePoint ==
    [][/\ \A k \in Keys : index'[k] # NoEntry => index'[k].gen >= safe_point'
       /\ (rpc = "lookup" /\ rpc' = "open") => rentry'.gen >= safe_point]_vars

\* Compaction has stored its generation as safe_point while the index holds
\* a key, and a get on the clone that began after it has obtained an entry.
C16_Witness ==
    /\ wpc = "unlink"
    /\ safe_point = compaction_gen
    /\ rpc = "open"
    /\ rentry.gen = safe_point
    /\ rreaders = {}

\* C17: a step that removes a segment file is a step of compaction, the
\* file's generation is below compaction_gen, and safe_point is already
\* above it: no file of a generation at or above safe_point is removed.
C17_DeleteOnlyBelowSafePoint ==
    [][\A g \in dir \ dir' :
          /\ wpc = "unlink"
          /\ g < compaction_gen
          /\ g < safe_point]_vars

\* Compaction has removed the first segment and has another to remove.
C17_Witness ==
    /\ wpc = "unlink"
    /\ 1 \notin dir
    /\ stale # <<>>

\* C18: in every state, after open and at every step of set, remove and
\* compaction, the file the writer appends to is in the directory and every
\* other file of the directory has a generation below current_gen.
C18_CurrentGenIsGreatest ==
    /\ current_gen \in dir
    /\ \A g \in dir \ {current_gen} : g < current_gen

\* Compaction has created its two files beside the segment of a store that
\* was opened again.
C18_Witness ==
    /\ wpc = "copy"
    /\ Cardinality(dir) = 4
    /\ current_gen = 4
    /\ last.op = "open"

\* The segments of the directory whose generation is safe_point or
\* safe_point + 1.
CompactedSegments == {g \in dir : safe_point <= g /\ g <= safe_point + 1}

\* Segment g holds every live key: each key that has a value has an index
\* entry in g whose bytes have reached the file and are the Set record of that
\* value, and no other key has an entry.
HoldsAllLiveData(g) ==
    \A k \in Keys :
        IF model[k] \in AllValues
        THEN LET e == index[k] IN
             /\ e # NoEntry
             /\ e.gen = g
             /\ e.pos + e.len <= Available(g)
             /\ \E i \in RecordsAt(g, e.pos, e.len) :
                   files[g][i] = SetRec(k, model[k])
        ELSE index[k] = NoEntry

\* C19: the step that completes a compaction leaves the directory with two
\* segments: the compaction file, whose generation is safe_point and which
\* holds all live data, and the empty file the writer appends to, whose
\* generation is safe_point + 1.
C19_LiveDataAtSafePoint ==
    [][(wpc = "unlink" /\ wpc' = "idle") =>
          /\ dir' = {safe_point', safe_point' + 1}
          /\ HoldsAllLiveData(safe_point)'
          /\ current_gen' = safe_point' + 1
          /\ files'[current_gen'] = <<>>]_vars

\* C19 as stated: the step that completes a compaction leaves exactly one
\* segment whose generation is safe_point or safe_point + 1, that segment
\* holds all live data, and the file the writer appends to has generation
\* safe_point + 2.
C19_CurrentGenIsSafePointPlusTwo ==
    [][(wpc = "unlink" /\ wpc' = "idle") =>
          /\ \E g \in CompactedSegments' :
                /\ CompactedSegments' = {g}
                /\ HoldsAllLiveData(g)'
          /\ current_gen' = safe_point' + 2
          /\ current_gen' \in dir']_vars

\* A compaction has just completed on a store that was opened again: two
\* older segments are gone and the live value is in the compaction file.
C19_Witness ==
    /\ wpc = "idle"
    /\ last.op = "set"
    /\ uncompacted = 0
    /\ safe_point = 3
    /\ dir = {3, 4}
    /\ \E k \in Keys : index[k] # NoEntry /\ index[k].gen = 3

\* Record i of <g>.log is the one some index entry points at.
Referenced(g, i) ==
    \E k \in Keys :
        /\ index[k] # NoEntry
        /\ index[k].gen = g
        /\ index[k].pos = Offset(files[g], i)
        /\ index[k].len = files[g][i].len

RECURSIVE DeadIn(_, _)
DeadIn(g, i) ==
    IF i = 0 THEN 0
    ELSE (IF Referenced(g, i) THEN 0 ELSE files[g][i].len) + DeadIn(g, i - 1)

RECURSIVE DeadSum(_)
DeadSum(gens) ==
    IF gens = {} THEN 0
    ELSE LET g == CHOOSE x \in gens : TRUE
         IN  DeadIn(g, Len(files[g])) + DeadSum(gens \ {g})

\* The bytes of the records, in the files of the directory, that no index
\* entry points at: overwritten or removed Set records and Rm records.
DeadBytes == DeadSum(dir)

\* C20: in every state, every step of compaction included, the uncompacted
\* counter is at most the number of dead bytes in the segment files.
\* compact() removes the stale files (lines 158-161) before it resets the
\* counter (line 163).
C20_UncompactedAtMostDead == uncompacted <= DeadBytes

-----------------------------------------------------------------------------
\* Properties of the counter, of compaction and of open

\* C21: a remove that returns Ok increases the uncompacted counter by the
\* length of the removed key's index entry plus the length of the Rm record
\* it appended, the amount load adds when it replays that record.
C21_RemoveCountsTombstone ==
    [][(Returns("remove") /\ last'.res = Ok) =>
          uncompacted' = uncompacted + index[last'.key].len
                                     + RmRec(last'.key).len]_vars

\* C22: a set calls compact() exactly when the counter, after the overwritten
\* entry's length has been added, is greater than COMPACTION_THRESHOLD (a
\* counter equal to the threshold does not compact), and whenever a set
\* returns Ok, with or without compaction, the counter is at most the
\* threshold.
C22_CompactsAboveThresholdOnly ==
    [][/\ (nops' # nops /\ wpc' = "begin")
            => /\ uncompacted' > COMPACTION_THRESHOLD
               /\ \E k \in Keys :
                     uncompacted' = uncompacted + index[k].len
       /\ (Returns("set") /\ last'.res = Ok)
            => uncompacted' <= COMPACTION_THRESHOLD
       /\ (wpc = "unlink" /\ wpc' = "idle")
            => /\ last'.op = "set" /\ last'.res = Ok
               /\ uncompacted' <= COMPACTION_THRESHOLD]_vars

\* A set has returned Ok without compaction with the counter equal to the
\* threshold.
C22_Witness ==
    /\ wpc = "idle"
    /\ last.op = "set"
    /\ last.res = Ok
    /\ last.had
    /\ uncompacted = COMPACTION_THRESHOLD
    /\ current_gen = 1

RECURSIVE LenBefore(_, _)
\* The bytes of the entries of idx of the keys before the i-th key.
LenBefore(idx, i) ==
    IF i <= 1 THEN 0
    ELSE (IF idx[KeySeq[i - 1]] # NoEntry THEN idx[KeySeq[i - 1]].len ELSE 0)
         + LenBefore(idx, i - 1)

\* The entries of idx lie one after the other from offset 0, in key order.
Packed(idx) ==
    \A i \in 1..Len(KeySeq) :
        idx[KeySeq[i]] # NoEntry => idx[KeySeq[i]].pos = LenBefore(idx, i)

\* C23: the step that completes a compaction called with current_gen = c and
\* the index entries E leaves an index with the keys of E, every entry in
\* generation c + 1 with the length it has in E, the entries one after the
\* other from offset 0 in ascending key order, no segment below c + 1 in the
\* directory, and the counter at 0.
C23_CompactionRewritesIndex ==
    [][(wpc = "unlink" /\ wpc' = "idle") =>
          /\ \A k \in Keys :
                IF inflight.entries[k] = NoEntry
                THEN index'[k] = NoEntry
                ELSE /\ index'[k] # NoEntry
                     /\ index'[k].gen = inflight.gen + 1
                     /\ index'[k].len = inflight.entries[k].len
          /\ Packed(index')
          /\ inflight.gen + 1 \in dir'
          /\ \A g \in dir' : g >= inflight.gen + 1
          /\ uncompacted' = 0]_vars

\* A compaction of two live keys has completed: the second key's record
\* follows the first in the compaction file and the old segment is gone.
C23_Witness ==
    /\ wpc = "idle"
    /\ last.op = "set"
    /\ last.res = Ok
    /\ uncompacted = 0
    /\ \A k \in Keys : index[k] # NoEntry /\ index[k].gen = 2
    /\ index[KeySeq[2]].pos = index[KeySeq[1]].len
    /\ index[KeySeq[1]].len # index[KeySeq[2]].len
    /\ 1 \notin dir

\* C24: no step decreases safe_point, and the only step that changes it is
\* compact()'s store of compaction_gen: set without compaction, remove, every
\* step of get and every other step of compaction leave it unchanged.
C24_SafePointMonotonic ==
    [][/\ safe_point' >= safe_point
       /\ safe_point' # safe_point =>
             /\ wpc = "publish"
             /\ wpc' = "unlink"
             /\ safe_point' = compaction_gen]_vars

\* compact() has just raised safe_point from 1 to 3 on a store that was
\* opened again.
C24_Witness ==
    /\ wpc = "unlink"
    /\ safe_point = 3
    /\ compaction_gen = 3
    /\ stale = <<1, 2>>

\* C25: the store opened on an empty directory has current_gen = 1 and
\* safe_point = 1, and every open that returns Ok on a directory holding the
\* generations G creates the empty segment max(G) + 1, makes it current_gen,
\* sets safe_point to min(G), and leaves every segment of G in the directory
\* with its contents.
C25_OpenGenerations ==
    /\ (current_gen = 1 /\ safe_point = 1 /\ dir = {1} /\ files[1] = <<>>)
    /\ [][(Returns("open") /\ last'.res = Ok) =>
             /\ current_gen' = SetMax(dir) + 1
             /\ safe_point' = SetMin(dir)
             /\ dir' = dir \cup {current_gen'}
             /\ current_gen' \notin dir
             /\ files'[current_gen'] = <<>>
             /\ \A g \in dir : files'[g] = files[g]]_vars

\* A store left by a compaction, with the segments 2 and 3, has been opened
\* again: segment 4 is current and safe_point is 2.
C25_Witness ==
    /\ last.op = "open"
    /\ last.res = Ok
    /\ dir = {2, 3, 4}
    /\ current_gen = 4
    /\ safe_point = 2
    /\ files[2] # <<>>

-----------------------------------------------------------------------------
\* Properties of the thread pool's workers and queue

\* The workers whose job panics in the step.
Panicking == {w \in DOMAIN workers :
                 workers[w].st = "run" /\ workers'[w].st = "panicked"}

\* The workers that leave their loop in the step because the flag is set.
Exiting == {w \in DOMAIN workers :
               workers[w].st = "loop" /\ workers'[w].st = "exited"}

\* C26: a step starts one worker thread when it is the panic of a job and
\* none otherwise; in particular a worker that leaves its loop because the
\* flag is set starts none; and the pool never has more than PoolSize
\* threads that hold a receiver.
C26_ReplacementOnlyOnPanic ==
    [][/\ Cardinality(DOMAIN workers' \ DOMAIN workers) = Cardinality(Panicking)
       /\ Cardinality(Panicking) <= 1
       /\ Exiting # {} => DOMAIN workers' = DOMAIN workers
       /\ Cardinality(Receivers') <= PoolSize]_vars

\* After stop() one worker has left its loop with no replacement while a
\* worker whose job panicked has been replaced.
C26_Witness ==
    /\ terminated
    /\ \E w \in DOMAIN workers : workers[w].st = "exited"
    /\ \E w \in DOMAIN workers : workers[w].st = "panicked"
    /\ Cardinality(DOMAIN workers) = PoolSize + 1
    /\ Cardinality(Receivers) = PoolSize - 1

\* C27: once stop() has set the flag, stop() sends its last no-op and
\* returns and every worker thread ends; until then a worker that comes back
\* to its loop condition with the flag set takes no further job, so each
\* worker runs at most the one job it was already waiting for.
C27_StopEndsEveryWorker ==
    /\ [][terminated =>
            \A w \in DOMAIN workers :
                workers[w].st = "loop" => workers'[w].st \in {"loop", "exited"}]_vars
    /\ terminated ~> (stopLeft = 0 /\ Receivers = {})

\* stop() has returned and every worker thread has ended, one of them by a
\* panic, the others on the flag.
C27_Witness ==
    /\ terminated
    /\ stopLeft = 0
    /\ Receivers = {}
    /\ \E w \in DOMAIN workers : workers[w].st = "panicked"
    /\ Cardinality({w \in DOMAIN workers : workers[w].st = "exited"}) = PoolSize

\* The jobs submitted and not yet received by a worker.
Pending == SelectSeq(queue, LAMBDA j : j # 0)

\* spawn, called with some job, can return.
SpawnReturns == ENABLED Spawn("work")

\* C28: the jobs submitted and not yet received never exceed 2 * PoolSize,
\* and while 2 * PoolSize jobs are pending a call of spawn cannot return: it
\* waits for a worker to receive a job and neither drops nor fails its job.
C28_SpawnBlocksWhenFull ==
    /\ Len(Pending) <= 2 * PoolSize
    /\ Len(Pending) = 2 * PoolSize => ~SpawnReturns

-----------------------------------------------------------------------------
\* Properties of the server's loops

\* The handler decodes a request that has arrived on the connection.
DecodesRequest == SrvNext /\ chunk'.kind = "request"

\* C29: after a read has timed out and the handler has polled the flag and
\* found it unset, the handler is back at the stream and a request that
\* arrives on the connection is still decoded.
\* The stream that yielded the timeout error yields nothing after it.
C29_TimeoutKeepsHandler ==
    (/\ spc = "next"
     /\ chunk.kind = "timeout"
     /\ ~sterm
     /\ Len(decoded) < MaxRequests) => ENABLED DecodesRequest

\* C30: once close() has set the flag, run reaches its return; run returns
\* only from its poll of the flag, so an accept error does not make it return;
\* the poll that finds the flag set hands nothing to the pool, and no job is
\* passed to the pool after run has returned.
C30_RunReturnsAfterClose ==
    /\ [][/\ (apc # "returned" /\ apc' = "returned")
                => (apc = "check" /\ sterm /\ jobs' = jobs)
          /\ (apc = "check" /\ sterm /\ apc' # apc) => apc' = "returned"
          /\ (apc = "match" /\ aitem = "error" /\ apc' # apc)
                => (apc' = "accept" /\ jobs' = jobs)
          /\ jobs' # jobs => (apc = "match" /\ aitem = "stream")
          /\ apc = "returned" => (apc' = "returned" /\ jobs' = jobs)]_vars
    /\ sterm ~> (apc = "returned")

\* run has returned after close() with a connection it had accepted and not
\* handed to the pool, having handed over the earlier ones.
C30_Witness ==
    /\ sterm
    /\ apc = "returned"
    /\ aitem = "stream"
    /\ Len(jobs) = 2
    /\ \A j \in 1..Len(jobs) : runs[j] = 1

-----------------------------------------------------------------------------
\* Frame properties of get, of the writer's appends and of remove

\* The step is a step of get: of the clone's get, or a get on the primary
\* handle that changes anything.
GetStep == rpc' # rpc \/ (nops' = nops /\ wpc = "idle" /\ wpc' = "idle"
                          /\ (mreaders' # mreaders \/ index' # index))

\* C31: every step of get, on the primary handle and on the clone, leaves
\* the index, the segment files, the directory, the uncompacted counter,
\* current_gen, safe_point and the writer's handles unchanged, and changes at
\* most the cache of the handle it was called on: the clone's get leaves the
\* primary handle's cache unchanged and the primary's get the clone's.
C31_GetChangesOwnCacheOnly ==
    [][GetStep =>
          /\ UNCHANGED <<index, files, dir, uncompacted, current_gen,
                         safe_point, wpos, wreaders>>
          /\ rpc' # rpc => mreaders' = mreaders
          /\ rpc' = rpc => rreaders' = rreaders]_vars

\* The clone's get has opened segment 1 and read a value while the primary
\* handle holds no open file.
C31_Witness ==
    /\ rpc = "done"
    /\ rres \in {Some(v) : v \in Values}
    /\ rreaders = {1}
    /\ mreaders = {}
    /\ wpc = "idle"

\* The segments of the directory whose contents the step changes.
Written == {g \in dir : g \in dir' /\ files'[g] # files[g]}

\* The step appends to segment g and changes nothing it already holds.
AppendsTo(g) ==
    /\ Len(files'[g]) > Len(files[g])
    /\ SubSeq(files'[g], 1, Len(files[g])) = files[g]

\* C32: every step that changes a segment appends to it, and the segment is
\* the writer's current one, which has the greatest generation, or, during
\* compaction, the compaction segment current_gen - 1 that this compaction
\* created; a segment below both never receives a byte.
C32_WritesToCurrentOrCompaction ==
    [][\A g \in Written :
          /\ AppendsTo(g)
          /\ \/ g = current_gen /\ g = SetMax(dir) /\ wpc \in {"idle", "panicked"}
             \/ /\ g = compaction_gen
                /\ g = current_gen - 1
                /\ wpc = "copy"]_vars

\* C32 as stated: every step that changes a segment appends to the segment of
\* the greatest generation in the directory, also during compaction.
C32_WritesToGreatestOnly ==
    [][\A g \in Written : AppendsTo(g) /\ g = SetMax(dir)]_vars

\* compact() has copied a record into the compaction segment while the
\* writer's new, empty segment of the next generation exists.
C32_Witness ==
    /\ wpc = "copy"
    /\ files[compaction_gen] # <<>>
    /\ current_gen = compaction_gen + 1
    /\ current_gen \in dir
    /\ files[current_gen] = <<>>
    /\ todo # <<>>

\* The step is a set's append of its record to the current segment.
SetAppends ==
    /\ wpc = "idle"
    /\ Len(files'[current_gen]) = Len(files[current_gen]) + 1
    /\ files'[current_gen][Len(files'[current_gen])].op = "Set"

\* C33: a remove that returns Ok runs no compaction: it leaves current_gen,
\* safe_point and the directory unchanged, appends one Rm record to the
\* current segment and changes no other segment, clears the index entry of
\* its key and of no other key, and adds to the counter without resetting
\* it, also when the counter ends above COMPACTION_THRESHOLD; with the
\* counter above the threshold it is the next set that calls compact().
C33_RemoveNeverCompacts ==
    [][/\ (Returns("remove") /\ last'.res = Ok) =>
             /\ wpc = "idle"
             /\ UNCHANGED <<current_gen, safe_point, dir>>
             /\ files' = [files EXCEPT ![current_gen] =
                              Append(@, RmRec(last'.key))]
             /\ index[last'.key] # NoEntry
             /\ index' = [index EXCEPT ![last'.key] = NoEntry]
             /\ uncompacted' > uncompacted
       /\ (SetAppends /\ uncompacted > COMPACTION_THRESHOLD) => wpc' = "begin"]_vars

\* A remove has returned Ok leaving the counter above the threshold, with
\* the one segment the store began with and another key still in the index.
C33_Witness ==
    /\ wpc = "idle"
    /\ last.op = "remove"
    /\ last.res = Ok
    /\ uncompacted > COMPACTION_THRESHOLD
    /\ dir = {1}
    /\ current_gen = 1
    /\ \E k \in Keys : index[k] # NoEntry

====
